---- MODULE Spec2Model ----
(***************************************************************************)
(* Model of triangle.cpp: the analytical model of the primary plasmonic    *)
(* resonance of a triangular nanoprism, with the tabulated and the         *)
(* size-dependent dielectric functions of silver and gold.                 *)
(*                                                                         *)
(* The program computes in double precision.  The model computes in exact  *)
(* rational arithmetic: a real number is a pair <<num, den>> in lowest     *)
(* terms with den > 0, a complex number a record [re, im] of two such      *)
(* pairs.  Arrays are 0-based in the source and 1-based here: At(a, j) is  *)
(* the source's a[j].                                                      *)
(***************************************************************************)
EXTENDS Integers, Sequences, FiniteSets, TLC

(***************************************************************************)
(* Bounds of the model.                                                    *)
(***************************************************************************)
MaxN == 5        \* largest table size tried (the smallest is 4)
MaxX == 5        \* table energies are drawn from 1..MaxX
MaxY == 1        \* table values n, k are drawn from 0..MaxY

(***************************************************************************)
(* Exact rational arithmetic standing for the source's double arithmetic.  *)
(***************************************************************************)
Abs(a) == IF a < 0 THEN -a ELSE a

RECURSIVE GCD(_, _)
GCD(a, b) == IF b = 0 THEN a ELSE GCD(b, a % b)

RNorm(n, d) ==
  LET s == IF d < 0 THEN -1 ELSE 1
      g == GCD(Abs(n), Abs(d))
  IN  << (s * n) \div g, (s * d) \div g >>

R(v) == << v, 1 >>

RNeg(a) == << -a[1], a[2] >>

RAdd(a, b) ==
  LET g == GCD(a[2], b[2])
  IN  RNorm(a[1] * (b[2] \div g) + b[1] * (a[2] \div g), (a[2] \div g) * b[2])

RSub(a, b) == RAdd(a, RNeg(b))

RMul(a, b) ==
  LET g1 == GCD(Abs(a[1]), b[2])
      g2 == GCD(Abs(b[1]), a[2])
  IN  IF a[1] = 0 \/ b[1] = 0 THEN << 0, 1 >>
      ELSE << (a[1] \div g1) * (b[1] \div g2), (a[2] \div g2) * (b[2] \div g1) >>

RInv(a) == IF a[1] < 0 THEN << -a[2], -a[1] >> ELSE << a[2], a[1] >>

RDiv(a, b) == RMul(a, RInv(b))

RLt(a, b) == a[1] * b[2] < b[1] * a[2]

RLe(a, b) == a[1] * b[2] <= b[1] * a[2]

IsRat(a) == a[2] > 0 /\ GCD(Abs(a[1]), a[2]) = 1

RECURSIVE RPow(_, _)
RPow(a, k) == IF k = 0 THEN R(1) ELSE RMul(a, RPow(a, k - 1))

\* the square and cube roots, for the arguments that have a rational one
Roots == { RNorm(a, b) : a \in 0..4, b \in 1..4 }
RSqrt(a) == CHOOSE r \in Roots : RMul(r, r) = a
RCbrt(a) == CHOOSE r \in Roots : RMul(r, RMul(r, r)) = a

(***************************************************************************)
(* Complex numbers, std::complex<double> in the source.                    *)
(***************************************************************************)
Cx(re, im) == [re |-> re, im |-> im]

IRE == Cx(R(1), R(0))
IIM == Cx(R(0), R(1))

CAdd(a, b) == Cx(RAdd(a.re, b.re), RAdd(a.im, b.im))

CSub(a, b) == Cx(RSub(a.re, b.re), RSub(a.im, b.im))

CMul(a, b) == Cx(RSub(RMul(a.re, b.re), RMul(a.im, b.im)),
                 RAdd(RMul(a.re, b.im), RMul(a.im, b.re)))

CScale(r, a) == Cx(RMul(r, a.re), RMul(r, a.im))

\* |a|^2 with a = g*(p + i*q)/m for integers p, q, g, m: (g/m)^2 * (p*p + q*q)
CNorm(a) ==
  LET l == (a.re[2] \div GCD(a.re[2], a.im[2])) * a.im[2]
      P == a.re[1] * (l \div a.re[2])
      Q == a.im[1] * (l \div a.im[2])
      g == GCD(Abs(P), Abs(Q))
      p == P \div g
      q == Q \div g
  IN  IF g = 0 THEN R(0)
      ELSE RMul(RMul(R(p * p + q * q), RNorm(g, l)), RNorm(g, l))

\* a/b with b = g*(p + i*q)/m for integers p, q, g, m: a*m*(p - i*q)/(g*(p*p + q*q))
CDiv(a, b) ==
  LET l == (b.re[2] \div GCD(b.re[2], b.im[2])) * b.im[2]
      P == b.re[1] * (l \div b.re[2])
      Q == b.im[1] * (l \div b.im[2])
      g == GCD(Abs(P), Abs(Q))
      p == P \div g
      q == Q \div g
      f == RNorm(l, g * (p * p + q * q))
  IN  Cx(RMul(f, RAdd(RMul(a.re, R(p)), RMul(a.im, R(q)))),
         RMul(f, RSub(RMul(a.im, R(p)), RMul(a.re, R(q)))))

CZero(a) == a.re = R(0) /\ a.im = R(0)

(***************************************************************************)
(* State.  A behaviour of Spec is one call of a core function, made by a   *)
(* Call_ action that draws the arguments and runs the function.            *)
(*   is_silver              the material switch of main                    *)
(*   energy, ndata, kdata   the embedded spectral table of that material   *)
(*   pc        "idle" before the call, "returned" after the function       *)
(*             returned, "exited" after it ended the process with exit(0)  *)
(*   op, args  the core function called and its arguments                  *)
(*   ret       what the call returned                                      *)
(*   win       the window base index i of the last run of interpolate      *)
(*   cout      the lines written to standard output                        *)
(*   memo      history: every distinct call made so far with the outcome   *)
(*             of its first occurrence (kept by SpecSeq only)              *)
(*   ncalls    history: the number of calls completed before this one      *)
(***************************************************************************)
VARIABLES is_silver, energy, ndata, kdata, pc, op, args, ret, win, cout,
          memo, ncalls, main

table == << is_silver, energy, ndata, kdata >>

hist == << memo, ncalls >>

vars == << is_silver, energy, ndata, kdata, pc, op, args, ret, win, cout,
           memo, ncalls, main >>

NoRet == [kind |-> "none"]
RealRet(v) == [kind |-> "real", re |-> v]
ComplexRet(c) == [kind |-> "complex", re |-> c.re, im |-> c.im]
SciRet(v) == [kind |-> "sci", m |-> v.m, e |-> v.e]
ExitRet == [kind |-> "exit"]

At(a, j) == a[j + 1]

\* the locals and the four output files of main before main has run
MainIdle ==
  [i |-> 0, wl |-> 0, D_SD |-> NoRet, eps_m |-> NoRet, val |-> NoRet,
   fout_re |-> << >>, fout_im |-> << >>, fout_sc |-> << >>, fout_ex |-> << >>]

(***************************************************************************)
(* interpolate: the scan for the window base index.                        *)
(***************************************************************************)
\* a scan that starts from the index the previous call left behind
InitI_static == win

InitI == 0

\* the value of i after the loop has run from j to n - 1: the loop assigns i
\* once, at the first index whose node is above the query, and clears flag
ScanFrom(j, i, flag, n, x_arr, x_val) ==
  LET above == { k \in j..(n - 1) : RLt(x_val, R(At(x_arr, k))) }
  IN  IF flag /\ above # {}
      THEN (CHOOSE k \in above : \A m \in above : k <= m) - 1
      ELSE i

WindowBase(n, x_arr, x_val) ==
  LET i0 == ScanFrom(1, InitI, TRUE, n, x_arr, x_val)
      i1 == IF i0 < 1 THEN 1 ELSE i0
  IN  IF i1 > n - 3 THEN n - 3 ELSE i1

(***************************************************************************)
(* interpolate: the cubic through the four points of the window at i.      *)
(***************************************************************************)
LagrangeTerm(x_val, xa, xb, xc, xk, yk) ==
  RDiv(RMul(RMul(RMul(RSub(x_val, xa), RSub(x_val, xb)), RSub(x_val, xc)), yk),
       RMul(RMul(RSub(xk, xa), RSub(xk, xb)), RSub(xk, xc)))

\* a window that skips the sample next below the base when there is room
WindowIndices_gap(i) == << IF i > 1 THEN i - 2 ELSE i - 1, i, i + 1, i + 2 >>

\* the indices of x_arr and y_arr copied to x[0..3] and y[0..3]
WindowIndices(i) == << i - 1, i, i + 1, i + 2 >>

Cubic(x_arr, y_arr, i, x_val) ==
  LET x == [m \in 0..3 |-> R(At(x_arr, WindowIndices(i)[m + 1]))]
      y == [m \in 0..3 |-> R(At(y_arr, WindowIndices(i)[m + 1]))]
  IN  RAdd(RAdd(RAdd(LagrangeTerm(x_val, x[1], x[2], x[3], x[0], y[0]),
                     LagrangeTerm(x_val, x[0], x[2], x[3], x[1], y[1])),
                LagrangeTerm(x_val, x[0], x[1], x[3], x[2], y[2])),
           LagrangeTerm(x_val, x[0], x[1], x[2], x[3], y[3]))

interpolate(n, x_arr, y_arr, x_val) ==
  Cubic(x_arr, y_arr, WindowBase(n, x_arr, x_val), x_val)

(***************************************************************************)
(* epsAg, epsAu: the tabulated dielectric function.  The two functions     *)
(* have the same body and differ in the embedded table and in the text of  *)
(* the message.                                                            *)
(***************************************************************************)
HC == << 6199, 5 >>     \* 1239.8

num == Len(energy)

Omega(lambda) == RDiv(HC, lambda)

\* a range check that also rejects the two boundary energies
OutOfRange_inclusive(omega) ==
  RLe(omega, R(At(energy, 0))) \/ RLe(R(At(energy, num - 1)), omega)

OutOfRange(omega) ==
  RLt(omega, R(At(energy, 0))) /\ RLt(R(At(energy, num - 1)), omega)

\* the real part with the two squares added
EpsValue_plus(n_val, k_val) ==
  [re |-> RAdd(RMul(n_val, n_val), RMul(k_val, k_val)),
   im |-> RMul(RMul(R(2), n_val), k_val)]

EpsValue(n_val, k_val) ==
  [re |-> RSub(RMul(n_val, n_val), RMul(k_val, k_val)),
   im |-> RMul(RMul(R(2), n_val), k_val)]

epsTab(lambda) ==
  LET omega == Omega(lambda)
  IN  IF OutOfRange(omega) THEN ExitRet
      ELSE ComplexRet(EpsValue(interpolate(num, energy, ndata, omega),
                               interpolate(num, energy, kdata, omega)))

MsgAg == "Argument of dielectric function of silver is out of range"
MsgAu == "Argument of dielectric function of gold is out of range"

(***************************************************************************)
(* Numbers in scientific notation, m * 10^e with m rational, for the       *)
(* physical constants of the size correction (6.582e-16 has no pair of     *)
(* machine integers as numerator and denominator).                         *)
(***************************************************************************)
Sci(m, e) == [m |-> m, e |-> e]

RECURSIVE Pow10(_)
Pow10(k) == IF k = 0 THEN 1 ELSE 10 * Pow10(k - 1)

SMul(a, b) == [m |-> RMul(a.m, b.m), e |-> a.e + b.e]

SDiv(a, b) == [m |-> RDiv(a.m, b.m), e |-> a.e - b.e]

SAdd(a, b) ==
  LET e == IF a.e < b.e THEN a.e ELSE b.e
  IN  [m |-> RAdd(RMul(a.m, R(Pow10(a.e - e))), RMul(b.m, R(Pow10(b.e - e)))),
       e |-> e]

(***************************************************************************)
(* epsAgSD, epsAuSD: the size-dependent dielectric function.  The result   *)
(* is the tabulated value plus the Drude correction                        *)
(*   omega_p^2 * ( 1/(omega^2 + i*omega*gam_inf)                           *)
(*               - 1/(omega^2 + i*omega*gam_r) ),                          *)
(* kept as the tabulated value and the four parameters of the correction.  *)
(***************************************************************************)
AgConst == [vF |-> Sci(R(139), 6), lam_inf |-> Sci(R(52), -7),
            omega_p |-> << 91, 10 >>, A |-> << 5, 2 >>]

AuConst == [vF |-> Sci(R(138), 6), lam_inf |-> Sci(R(128), -8),
            omega_p |-> R(9), A |-> R(2)]

h_bar == Sci(R(6582), -19)

gam_inf(c) == SDiv(SMul(h_bar, c.vF), c.lam_inf)

gam_r(c, D) ==
  SAdd(gam_inf(c),
       SMul(SMul(SMul(SMul(Sci(c.A, 0), h_bar), c.vF), Sci(R(1), 7)),
            Sci(RDiv(R(2), D), 0)))

\* a size correction with a range check of its own
epsSD_ownCheck(c, lambda, D) ==
  LET bulk == epsTab(lambda)
      omega == Omega(lambda)
  IN  IF bulk = ExitRet
         \/ RLt(omega, R(At(energy, 0))) \/ RLt(R(At(energy, num - 1)), omega)
      THEN ExitRet
      ELSE [kind |-> "complex_sd", re |-> bulk.re, im |-> bulk.im,
            omega_p |-> c.omega_p, omega |-> omega,
            gam_inf |-> gam_inf(c), gam_r |-> gam_r(c, D)]

epsSD(c, lambda, D) ==
  LET bulk == epsTab(lambda)
  IN  IF bulk = ExitRet THEN ExitRet
      ELSE [kind |-> "complex_sd", re |-> bulk.re, im |-> bulk.im,
            omega_p |-> c.omega_p, omega |-> Omega(lambda),
            gam_inf |-> gam_inf(c), gam_r |-> gam_r(c, D)]

(***************************************************************************)
(* dipPolariz, scatCSdip, extCSdip: the analytical model.                  *)
(*                                                                         *)
(* M_PI and sqrt(3.0) are irrational; the model computes with a small      *)
(* rational value in their place, small so that every intermediate result  *)
(* stays a pair of machine integers.  What is checked below is algebra and *)
(* sign, which use only that the two values are positive.  The four fitted *)
(* quantities beta, eps_c, a2 and a4 are sums of non-integer powers of     *)
(* L/H, L/R and H/R; the model takes their values for the geometry at hand *)
(* as the argument fit.                                                    *)
(***************************************************************************)
M_PI == << 3, 1 >>
Sqrt3 == << 7, 4 >>

\* the denominator with the term 1/(eps_c - 1) added
dipPolariz_added(lambda, eps_m, eps_h, L, H, fit) ==
  LET s == RDiv(RMul(RSqrt(eps_h), L), lambda)
      V0 == RMul(RMul(RMul(RMul(<< 1, 4 >>, Sqrt3), L), L), H)
      V1 == RMul(V0, fit.beta)
      Arc == CAdd(CAdd(CScale(RMul(RMul(s, s), fit.a2), IRE),
                       CScale(RDiv(RMul(RMul(RMul(RMul(R(4), M_PI), M_PI), V1),
                                        RPow(s, 3)),
                                   RMul(R(3), RPow(L, 3))),
                              IIM)),
                  CScale(RMul(RPow(s, 4), fit.a4), IRE))
      den == CSub(CAdd(CDiv(IRE, CSub(CScale(RInv(eps_h), eps_m), IRE)),
                       CDiv(IRE, Cx(RSub(fit.eps_c, R(1)), R(0)))),
                  Arc)
  IN  CDiv(Cx(RMul(RDiv(R(1), RMul(R(4), M_PI)), V1), R(0)), den)

dipPolariz(lambda, eps_m, eps_h, L, H, fit) ==
  LET s == RDiv(RMul(RSqrt(eps_h), L), lambda)
      V0 == RMul(RMul(RMul(RMul(<< 1, 4 >>, Sqrt3), L), L), H)
      V1 == RMul(V0, fit.beta)
      Arc == CAdd(CAdd(CScale(RMul(RMul(s, s), fit.a2), IRE),
                       CScale(RDiv(RMul(RMul(RMul(RMul(R(4), M_PI), M_PI), V1),
                                        RPow(s, 3)),
                                   RMul(R(3), RPow(L, 3))),
                              IIM)),
                  CScale(RMul(RPow(s, 4), fit.a4), IRE))
      den == CSub(CSub(CDiv(IRE, CSub(CScale(RInv(eps_h), eps_m), IRE)),
                       CDiv(IRE, Cx(RSub(fit.eps_c, R(1)), R(0)))),
                  Arc)
  IN  CDiv(Cx(RMul(RDiv(R(1), RMul(R(4), M_PI)), V1), R(0)), den)

\* the polarizability is a number: no division by zero on the way
DipDefined(lambda, eps_m, eps_h, L, H, fit) ==
  LET s == RDiv(RMul(RSqrt(eps_h), L), lambda)
      V1 == RMul(RMul(RMul(RMul(RMul(<< 1, 4 >>, Sqrt3), L), L), H), fit.beta)
      t1 == CSub(CScale(RInv(eps_h), eps_m), IRE)
      Arc == Cx(RAdd(RMul(RMul(s, s), fit.a2), RMul(RPow(s, 4), fit.a4)),
                RDiv(RMul(RMul(RMul(RMul(R(4), M_PI), M_PI), V1), RPow(s, 3)),
                     RMul(R(3), RPow(L, 3))))
  IN  /\ ~CZero(t1)
      /\ fit.eps_c # R(1)
      /\ ~CZero(CSub(CSub(CDiv(IRE, t1),
                          Cx(RInv(RSub(fit.eps_c, R(1))), R(0))), Arc))

WaveNumber(lambda, eps_h) == RDiv(RMul(RMul(R(2), M_PI), RSqrt(eps_h)), lambda)

\* 8.0*M_PI*k^4*|polariz|^2*1.0e-14/3.0
scatCSdip(lambda, eps_m, eps_h, L, H, fit) ==
  LET polariz == dipPolariz(lambda, eps_m, eps_h, L, H, fit)
      k == WaveNumber(lambda, eps_h)
  IN  SDiv(SMul(Sci(RMul(RMul(RMul(R(8), M_PI), RPow(k, 4)), CNorm(polariz)), 0),
                Sci(R(1), -14)),
           Sci(R(3), 0))

\* an extinction cross section clamped at zero
extCSdip_clamped(lambda, eps_m, eps_h, L, H, fit) ==
  LET polariz == dipPolariz(lambda, eps_m, eps_h, L, H, fit)
      k == WaveNumber(lambda, eps_h)
      im == IF polariz.im[1] < 0 THEN R(0) ELSE polariz.im
  IN  SMul(Sci(RMul(RMul(RMul(R(4), M_PI), k), im), 0), Sci(R(1), -14))

\* 4.0*M_PI*k*imag(polariz)*1.0e-14
extCSdip(lambda, eps_m, eps_h, L, H, fit) ==
  LET polariz == dipPolariz(lambda, eps_m, eps_h, L, H, fit)
      k == WaveNumber(lambda, eps_h)
  IN  SMul(Sci(RMul(RMul(RMul(R(4), M_PI), k), polariz.im), 0), Sci(R(1), -14))

\* 2.0*pow(3.0*sqrt(3.0)*L*L*H/(16.0*M_PI), 1.0/3.0)
diameter(L, H) ==
  RMul(R(2), RCbrt(RDiv(RMul(RMul(RMul(RMul(R(3), Sqrt3), L), L), H),
                        RMul(R(16), M_PI))))

(***************************************************************************)
(* Inputs.                                                                 *)
(***************************************************************************)
IncSeqs(n) ==
  { s \in [1..n -> 1..MaxX] : \A a \in 1..(n - 1) : s[a] < s[a + 1] }

\* interpolate is linear in y_arr: the columns with one non-zero sample span
\* every column
Columns(n) ==
  { [j \in 1..n |-> IF j = p THEN v ELSE 0] : p \in 1..n, v \in 1..MaxY }

\* a second column that differs from col at every node
Shifted(col) ==
  { [j \in DOMAIN col |-> (col[j] + c) % (MaxY + 1)] : c \in 1..MaxY }

\* query arguments: every half-integer from 0 to MaxX + 1
Queries == { RNorm(m, 2) : m \in 0..(2 * (MaxX + 1)) }

\* wavelengths whose photon energies are the positive query arguments
Lambdas == { RDiv(HC, q) : q \in Queries \ { R(0) } }

\* size parameters in nm
Diameters == { R(1), R(34) }

\* arguments of the analytical model
DipLambdas == { R(2), R(4) }
EpsM == { Cx(R(-2), R(1)), Cx(R(-2), R(-1)), Cx(R(-3), R(0)), Cx(R(3), R(1)) }
EpsH == { R(1), R(4) }
Edges == { R(1), R(2) }
Heights == { R(1), R(2) }
Fits == { [beta |-> R(b), eps_c |-> R(c), a2 |-> R(a), a4 |-> R(-a)] :
            b \in { 1, 2 }, c \in { -1, -3 }, a \in { 1, 2 } }
DipArgs ==
  { [lambda |-> l, eps_m |-> m, eps_h |-> h, L |-> e, H |-> t, fit |-> f] :
      l \in DipLambdas, m \in EpsM, h \in EpsH, e \in Edges, t \in Heights,
      f \in Fits }

(***************************************************************************)
(* Calls.                                                                  *)
(***************************************************************************)
Init ==
  /\ is_silver \in BOOLEAN
  /\ \E n \in 4..MaxN :
       /\ energy \in IncSeqs(n)
       /\ ndata \in Columns(n)
  /\ kdata \in Shifted(ndata)
  /\ pc = "idle"
  /\ op = "none"
  /\ args = [n |-> 0]
  /\ ret = NoRet
  /\ win = 0
  /\ cout = << >>
  /\ memo = {}
  /\ ncalls = 0
  /\ main = MainIdle

Do_interpolate(n, x_arr, y_arr, x_val) ==
  /\ op' = "interpolate"
  /\ args' = [n |-> n, x_arr |-> x_arr, y_arr |-> y_arr, x_val |-> x_val]
  /\ ret' = RealRet(interpolate(n, x_arr, y_arr, x_val))
  /\ win' = WindowBase(n, x_arr, x_val)
  /\ pc' = "returned"
  /\ UNCHANGED << table, cout, main >>

Call_interpolate ==
  /\ pc = "idle"
  /\ UNCHANGED hist
  /\ \E y_arr \in { ndata, kdata }, x_val \in Queries :
       Do_interpolate(num, energy, y_arr, x_val)

Do_eps(name, msg, lambda) ==
  /\ op' = name
  /\ args' = [lambda |-> lambda]
  /\ ret' = epsTab(lambda)
  /\ win' = WindowBase(num, energy, Omega(lambda))
  /\ pc' = IF epsTab(lambda) = ExitRet THEN "exited" ELSE "returned"
  /\ cout' = IF epsTab(lambda) = ExitRet THEN Append(cout, msg) ELSE cout
  /\ UNCHANGED << table, main >>

Call_epsAg ==
  /\ pc = "idle" /\ is_silver
  /\ UNCHANGED hist
  /\ \E lambda \in Lambdas : Do_eps("epsAg", MsgAg, lambda)

Call_epsAu ==
  /\ pc = "idle" /\ ~is_silver
  /\ UNCHANGED hist
  /\ \E lambda \in Lambdas : Do_eps("epsAu", MsgAu, lambda)

Do_epsSD(name, msg, c, lambda, D) ==
  /\ op' = name
  /\ args' = [lambda |-> lambda, D |-> D]
  /\ ret' = epsSD(c, lambda, D)
  /\ win' = WindowBase(num, energy, Omega(lambda))
  /\ pc' = IF epsSD(c, lambda, D) = ExitRet THEN "exited" ELSE "returned"
  /\ cout' = IF epsTab(lambda) = ExitRet THEN Append(cout, msg) ELSE cout
  /\ UNCHANGED << table, main >>

Call_epsAgSD ==
  /\ pc = "idle" /\ is_silver
  /\ UNCHANGED hist
  /\ \E lambda \in Lambdas, D \in Diameters :
       Do_epsSD("epsAgSD", MsgAg, AgConst, lambda, D)

Call_epsAuSD ==
  /\ pc = "idle" /\ ~is_silver
  /\ UNCHANGED hist
  /\ \E lambda \in Lambdas, D \in Diameters :
       Do_epsSD("epsAuSD", MsgAu, AuConst, lambda, D)

Next ==
  \/ Call_interpolate
  \/ Call_epsAg
  \/ Call_epsAu
  \/ Call_epsAgSD
  \/ Call_epsAuSD

Spec == Init /\ [][Next]_vars

(***************************************************************************)
(* Calls of the analytical model.  They read no table, so SpecDip starts   *)
(* them from one table.                                                    *)
(***************************************************************************)
Do_dipPolariz(a) ==
  /\ op' = "dipPolariz"
  /\ args' = a
  /\ ret' = ComplexRet(dipPolariz(a.lambda, a.eps_m, a.eps_h, a.L, a.H, a.fit))
  /\ pc' = "returned"
  /\ UNCHANGED << table, win, cout, main >>

Do_scatCSdip(a) ==
  /\ op' = "scatCSdip"
  /\ args' = a
  /\ ret' = SciRet(scatCSdip(a.lambda, a.eps_m, a.eps_h, a.L, a.H, a.fit))
  /\ pc' = "returned"
  /\ UNCHANGED << table, win, cout, main >>

Do_extCSdip(a) ==
  /\ op' = "extCSdip"
  /\ args' = a
  /\ ret' = SciRet(extCSdip(a.lambda, a.eps_m, a.eps_h, a.L, a.H, a.fit))
  /\ pc' = "returned"
  /\ UNCHANGED << table, win, cout, main >>

Do_diameter(L, H) ==
  /\ op' = "diameter"
  /\ args' = [L |-> L, H |-> H]
  /\ ret' = RealRet(diameter(L, H))
  /\ pc' = "returned"
  /\ UNCHANGED << table, win, cout, main >>

\* prisms whose equal-volume sphere has a rational diameter
Prisms == { << R(1), << 8, 7 >> >>, << R(1), << 64, 7 >> >>,
            << R(2), << 2, 7 >> >>, << R(2), << 16, 7 >> >> }

Call_diameter ==
  /\ pc = "idle"
  /\ UNCHANGED hist
  /\ \E g \in Prisms : Do_diameter(g[1], g[2])

Defined(a) == DipDefined(a.lambda, a.eps_m, a.eps_h, a.L, a.H, a.fit)

Call_dipPolariz ==
  /\ pc = "idle"
  /\ UNCHANGED hist
  /\ \E a \in DipArgs : Defined(a) /\ Do_dipPolariz(a)

Call_scatCSdip ==
  /\ pc = "idle"
  /\ UNCHANGED hist
  /\ \E a \in DipArgs : Defined(a) /\ Do_scatCSdip(a)

Call_extCSdip ==
  /\ pc = "idle"
  /\ UNCHANGED hist
  /\ \E a \in DipArgs : Defined(a) /\ Do_extCSdip(a)

InitDip ==
  /\ Init
  /\ energy = << 1, 2, 3, 4 >>
  /\ ndata = << 0, 1, 0, 0 >>

NextDip ==
  \/ Call_dipPolariz
  \/ Call_scatCSdip
  \/ Call_extCSdip
  \/ Call_diameter

SpecDip == InitDip /\ [][NextDip]_vars

(***************************************************************************)
(* Sequences of calls.  In SpecSeq the caller makes up to MaxCalls calls   *)
(* one after the other, of any core function in any order, and memo keeps  *)
(* the outcome each distinct call had the first time it was made.          *)
(***************************************************************************)
MaxCalls == 3

SeqQueries == { R(0), << 5, 2 >>, R(5) }
SeqLambdas == { RDiv(HC, R(3)), RDiv(HC, R(6)) }
SeqDipArgs ==
  { [lambda |-> R(4), eps_m |-> m, eps_h |-> R(1), L |-> R(2), H |-> R(1),
     fit |-> [beta |-> R(1), eps_c |-> R(-3), a2 |-> R(1), a4 |-> R(-1)]] :
      m \in { Cx(R(-2), R(1)) } }

Seq_interpolate ==
  \E y_arr \in { ndata, kdata }, x_val \in SeqQueries :
    Do_interpolate(num, energy, y_arr, x_val)

Seq_eps ==
  \E lambda \in SeqLambdas :
    IF is_silver THEN Do_eps("epsAg", MsgAg, lambda)
                 ELSE Do_eps("epsAu", MsgAu, lambda)

Seq_epsSD ==
  \E lambda \in SeqLambdas :
    IF is_silver THEN Do_epsSD("epsAgSD", MsgAg, AgConst, lambda, R(34))
                 ELSE Do_epsSD("epsAuSD", MsgAu, AuConst, lambda, R(34))

Seq_dip ==
  \E a \in SeqDipArgs :
    Do_dipPolariz(a) \/ Do_scatCSdip(a) \/ Do_extCSdip(a)

Seq_diameter == Do_diameter(R(1), << 8, 7 >>)

Known(o, a) == \E m \in memo : m.op = o /\ m.args = a

Remember ==
  memo' = IF Known(op', args') THEN memo
          ELSE memo \cup { [op |-> op', args |-> args', ret |-> ret', pc |-> pc'] }

SeqCall ==
  /\ pc = "idle"
  /\ Seq_interpolate \/ Seq_eps \/ Seq_epsSD \/ Seq_dip \/ Seq_diameter
  /\ Remember
  /\ UNCHANGED ncalls

NextCall ==
  /\ pc = "returned"
  /\ ncalls + 1 < MaxCalls
  /\ pc' = "idle"
  /\ ncalls' = ncalls + 1
  /\ UNCHANGED << table, op, args, ret, win, cout, memo, main >>

InitSeq ==
  /\ Init
  /\ energy = << 1, 2, 3, 4, 5 >>
  /\ ndata = << 0, 0, 0, 0, 1 >>

NextSeq == SeqCall \/ NextCall

SpecSeq == InitSeq /\ [][NextSeq]_vars

(***************************************************************************)
(* The embedded tables of epsAg and epsAu, entry for entry.  An entry is   *)
(* written as an integer number of the array's unit: 10^-2 for the silver  *)
(* energy and ndata, 10^-3 for the silver kdata, 10^-7 for the gold        *)
(* energy, 10^-4 for the gold ndata and 10^-3 for the gold kdata.          *)
(***************************************************************************)
epsAg_energy ==
  <<
     64, 77, 89, 102, 114, 126, 139, 151, 164, 176, 188, 201, 213, 226,
     238, 250, 263, 275, 288, 300, 312, 325, 337, 350, 362, 374, 387, 399,
     412, 424, 436, 449, 461, 474, 486, 498, 511, 523, 536, 548, 560, 573,
     585, 598, 610, 622, 635, 647, 660
  >>

epsAg_ndata ==
  <<
     24, 15, 13, 9, 4, 4, 4, 4, 3, 4, 5, 6, 5, 6, 5, 5, 5, 4, 4, 5, 5, 5,
     7, 10, 14, 17, 81, 113, 134, 139, 141, 141, 138, 135, 133, 131, 130,
     128, 128, 126, 125, 122, 120, 118, 115, 114, 112, 110, 107
  >>

epsAg_kdata ==
  <<
     14080, 11850, 10100, 8828, 7795, 6992, 6312, 5727, 5242, 4838, 4483,
     4152, 3858, 3586, 3324, 3093, 2869, 2657, 2462, 2275, 2070, 1864,
     1657, 1419, 1142, 829, 392, 616, 964, 1161, 1264, 1331, 1372, 1387,
     1393, 1389, 1378, 1367, 1357, 1344, 1342, 1336, 1325, 1312, 1296,
     1277, 1255, 1232, 1212
  >>

epsAu_energy ==
  <<
     497329, 516601, 535569, 554739, 574001, 592942, 612268, 631284,
     650494, 669461, 688801, 707672, 726754, 745994, 765334, 784214,
     803527, 822722, 841712, 861001, 879944, 899088, 918401, 937144,
     956668, 975485, 995058, 1013770, 1033200, 1052500, 1071600, 1090450,
     1109970, 1128150, 1148000, 1166360, 1186450, 1204900, 1223930,
     1243450, 1262570, 1281760, 1300850, 1319960, 1339070, 1358280,
     1377300, 1396530, 1415670, 1434670, 1453850, 1473020, 1492170,
     1511260, 1530480, 1549610, 1568630, 1587710, 1606850, 1626020,
     1645230, 1664220, 1683420, 1702610, 1721760, 1740860, 1759890,
     1779080, 1798180, 1817420, 1836530, 1855500, 1874860, 1893760,
     1913040, 1932120, 1951280, 1970510, 1989480, 2008490, 2027870,
     2046960, 2066060, 2085170, 2104280, 2123380, 2142460, 2161510,
     2180900, 2199860, 2219150, 2238390, 2257130, 2276610, 2295580,
     2314870, 2334040, 2353090, 2371990, 2391210, 2410270, 2429630,
     2448830, 2467840, 2486650, 2506250, 2525140, 2544310, 2563250,
     2582470, 2601430, 2620680, 2639650, 2658890, 2678420, 2697070,
     2716570, 2735750, 2754590, 2773700, 2793070, 2812070, 2831340,
     2850210, 2869340, 2888730, 2907700, 2926920, 2945690, 2965420,
     2983980, 3003490, 3022530, 3041810, 3060580, 3079590, 3098830,
     3118310, 3137250, 3156420, 3175820, 3194650, 3213690, 3232960,
     3252470, 3271350, 3290450, 3309780, 3328430, 3347310, 3366390,
     3385700, 3405220, 3424030, 3443050, 3462280, 3481720, 3500400,
     3520280, 3539370, 3557650, 3577150, 3596870, 3615750, 3634830,
     3654120, 3672520, 3692200, 3710990, 3729970, 3749140, 3768520,
     3788090, 3806700, 3825490, 3845660, 3863640, 3883000, 3902560,
     3921070, 3941010, 3959890, 3978950, 3998200, 4017630, 4035940,
     4055750, 4074410, 4093240, 4112240, 4131430, 4150790, 4170340,
     4190070, 4208560, 4227210, 4247490, 4266490, 4285660, 4303510,
     4323020, 4342700, 4361030, 4381070, 4399720, 4418540, 4437520,
     4456660, 4475960, 4495440, 4515080, 4533240, 4553220, 4571690,
     4590310, 4610790, 4629730, 4648830, 4668080, 4687490, 4705280,
     4725010, 4744900, 4763130, 4781500, 4801870, 4820540, 4839350,
     4858310, 4877430, 4896690, 4916110, 4935680, 4955400, 4973290,
     4993320, 5011490, 5031830, 5050270, 5068850, 5087570, 5108540,
     5127550, 5146710, 5183290, 5202860, 5222590, 5242460, 5260250,
     5280420, 5298470, 5337240, 5355690, 5374260, 5395310, 5433140,
     5452250, 5471500, 5490880, 5527600, 5547390, 5567320, 5584870,
     5622870, 5643340, 5661380, 5700420, 5718830, 5758670, 5777450,
     5796360, 5834550, 5853830, 5892780, 5909640, 5949340, 5969390,
     6006990, 6024500, 6062800, 6083620, 6122680, 6140870, 6177590,
     6199210, 6230360, 6261830, 6293610, 6325720, 6358160, 6390940,
     6424050, 6457510, 6491320, 6525480, 6560010, 6594900, 6630170,
     6665820, 6701850, 6738270, 6775090, 6812320, 6849950, 6888010,
     6926490, 6965400, 7004760, 7044560, 7084810, 7125530, 7166720,
     7208380, 7250540, 7293190, 7336340, 7380010, 7424200, 7468930,
     7514190, 7560010, 7606390, 7653340, 7700880, 7749010, 7797750,
     7847100, 7897080, 7947700, 7998980, 8050920, 8103540, 8156850,
     8210870, 8265610, 8321090, 8377310, 8434300, 8492070, 8550630,
     8610010, 8670220, 9184010, 9252550, 9322120, 9392740, 9464440,
     9537240, 9611180, 9686260, 9762530, 9840010, 9918730, 9998720,
     10080000, 10162600, 10246600, 10332000, 10418800, 10507100, 10596900,
     10688300, 10781200, 10875800, 10972100, 11070000, 11169700, 11271300,
     11374700, 11480000, 11587300, 11696600, 11808000, 11921600, 12037300,
     12155300, 12275700, 12398400, 12523700, 12651400, 12781900, 12915000,
     13051000, 13189800, 13331600, 13476500, 13624600, 13776000, 13930800,
     14089100, 14251100, 14416800, 14586400, 14760000, 14937900, 15120000,
     15306700, 15498000, 15694200, 15895400, 16101800, 16313700, 16531200,
     16754600, 16984100, 17220000, 17462600, 17712000, 17968700, 18233000,
     18505100, 18785500, 19074500, 19372500, 19680000, 19997400, 20325300,
     20664000, 21014300, 21376600, 21751600, 22140000, 22542600, 22960000,
     23393200, 23843100, 24310600, 24796800, 25302900, 25830000, 26379600,
     26953100, 27552000, 28178200, 28833500, 29520000, 30240000, 30996000,
     31790800, 32627400, 33509200, 34440000, 35424100, 36465900, 37571000,
     38745100, 39994900, 41328100
  >>

epsAu_ndata ==
  <<
     427900, 409200, 391600, 374900, 359100, 344100, 330000, 316600,
     303900, 291900, 280500, 269700, 259400, 249700, 240400, 231700,
     223300, 215400, 207800, 200600, 193800, 187200, 181000, 175100,
     169400, 164000, 158800, 153800, 149100, 144600, 140200, 136100,
     132100, 128300, 124600, 121100, 117700, 114500, 111400, 108400,
     105500, 102700, 100100, 97490, 95020, 92630, 90340, 88120, 85980,
     83920, 81930, 80000, 78140, 76340, 74610, 72930, 71300, 69730, 68200,
     66730, 65300, 63920, 62580, 61270, 60010, 58790, 57600, 56450, 55330,
     54240, 53190, 52160, 51170, 50200, 49260, 48340, 47450, 46580, 45740,
     44920, 44120, 43340, 42580, 41840, 41120, 40420, 39730, 39060, 38410,
     37780, 37160, 36550, 35960, 35390, 34820, 34270, 33740, 33210, 32700,
     32200, 31710, 31230, 30770, 30310, 29860, 29420, 28990, 28580, 28170,
     27760, 27370, 26990, 26610, 26240, 25880, 25530, 25180, 24840, 24510,
     24180, 23860, 23550, 23240, 22940, 22640, 22350, 22070, 21790, 21520,
     21250, 20980, 20720, 20470, 20220, 19980, 19740, 19500, 19270, 19040,
     18810, 18590, 18380, 18170, 17960, 17750, 17550, 17350, 17160, 16970,
     16780, 16590, 16410, 16230, 16050, 15880, 15710, 15540, 15380, 15210,
     15050, 14900, 14740, 14590, 14440, 14290, 14140, 14000, 13860, 13720,
     13580, 13450, 13310, 13180, 13050, 12930, 12800, 12680, 12560, 12440,
     12320, 12200, 12090, 11970, 11860, 11750, 11640, 11530, 11430, 11320,
     11220, 11120, 11020, 10920, 10820, 10730, 10630, 10540, 10450, 10360,
     10270, 10180, 10090, 10000, 9919, 9835, 9752, 9670, 9589, 9509, 9430,
     9352, 9275, 9199, 9123, 9049, 8976, 8904, 8832, 8761, 8692, 8623,
     8554, 8487, 8421, 8355, 8290, 8226, 8162, 8099, 8037, 7976, 7916,
     7856, 7797, 7738, 7680, 7623, 7566, 7511, 7455, 7401, 7347, 7293,
     7240, 7136, 7085, 7034, 6984, 6935, 6886, 6837, 6742, 6695, 6649,
     6603, 6512, 6468, 6423, 6380, 6294, 6252, 6210, 6168, 6087, 6047,
     6007, 5929, 5890, 5814, 5776, 5739, 5666, 5630, 5559, 5524, 5455,
     5421, 5354, 5321, 5256, 5224, 5160, 5129, 5068, 5031, 4989, 4942,
     4896, 4851, 4805, 4760, 4715, 4671, 4627, 4583, 4540, 4497, 4454,
     4412, 4369, 4328, 4286, 4245, 4204, 4163, 4123, 4082, 4042, 4003,
     3963, 3924, 3885, 3847, 3808, 3770, 3732, 3695, 3657, 3620, 3583,
     3546, 3510, 3474, 3437, 3402, 3366, 3331, 3295, 3260, 3226, 3191,
     3157, 3123, 3089, 3055, 3021, 2988, 2955, 2922, 2889, 2857, 2824,
     2551, 2520, 2490, 2460, 2430, 2400, 2371, 2342, 2313, 2281, 2250,
     2218, 2187, 2157, 2126, 2096, 2066, 2036, 2007, 1978, 1949, 1921,
     1893, 1865, 1837, 1810, 1783, 1757, 1731, 1705, 1680, 1655, 1630,
     1606, 1582, 1559, 1536, 1514, 1493, 1471, 1451, 1431, 1412, 1393,
     1375, 1358, 1342, 1326, 1312, 1298, 1286, 1275, 1265, 1256, 1249,
     1244, 1240, 1239, 1239, 1242, 1248, 1257, 1268, 1284, 1304, 1328,
     1358, 1394, 1436, 1487, 1546, 1616, 1698, 1794, 1908, 2041, 2199,
     2388, 2617, 2899, 3256, 3724, 4363, 5263, 6527, 8197, 10110, 11930,
     13330, 14220, 14720, 15050, 15370, 15670, 15850, 15880, 15850, 15880,
     16060, 16370, 16710, 16950, 17010, 16850, 16490, 15960
  >>

epsAu_kdata ==
  <<
     137500, 133900, 130400, 127100, 124000, 121000, 118200, 115500,
     112900, 110400, 108100, 105800, 103600, 101500, 99470, 97520, 95640,
     93830, 92080, 90390, 88760, 87180, 85660, 84180, 82760, 81370, 80030,
     78730, 77470, 76250, 75070, 73910, 72800, 71710, 70650, 69630, 68630,
     67650, 66710, 65780, 64890, 64010, 63160, 62330, 61520, 60730, 59960,
     59200, 58470, 57750, 57050, 56370, 55700, 55040, 54400, 53780, 53170,
     52570, 51980, 51410, 50850, 50300, 49760, 49240, 48720, 48210, 47720,
     47230, 46760, 46290, 45830, 45380, 44940, 44510, 44080, 43670, 43260,
     42850, 42460, 42070, 41690, 41320, 40950, 40590, 40230, 39880, 39540,
     39200, 38870, 38540, 38220, 37900, 37590, 37290, 36980, 36690, 36400,
     36110, 35820, 35550, 35270, 35000, 34730, 34470, 34210, 33960, 33710,
     33460, 33210, 32970, 32740, 32500, 32270, 32040, 31820, 31600, 31380,
     31160, 30950, 30740, 30530, 30330, 30130, 29930, 29730, 29540, 29340,
     29150, 28970, 28780, 28600, 28420, 28240, 28070, 27890, 27720, 27550,
     27380, 27220, 27060, 26890, 26730, 26580, 26420, 26270, 26110, 25960,
     25810, 25670, 25520, 25380, 25230, 25090, 24950, 24810, 24680, 24540,
     24410, 24280, 24140, 24010, 23890, 23760, 23630, 23510, 23390, 23260,
     23140, 23020, 22910, 22790, 22670, 22560, 22450, 22330, 22220, 22110,
     22000, 21890, 21790, 21680, 21570, 21470, 21370, 21260, 21160, 21060,
     20960, 20860, 20770, 20670, 20570, 20480, 20380, 20290, 20200, 20110,
     20020, 19930, 19840, 19750, 19660, 19570, 19490, 19400, 19320, 19230,
     19150, 19060, 18980, 18900, 18820, 18740, 18660, 18580, 18500, 18430,
     18350, 18270, 18200, 18120, 18050, 17970, 17900, 17830, 17750, 17680,
     17610, 17540, 17470, 17400, 17330, 17260, 17200, 17130, 17060, 17000,
     16930, 16860, 16800, 16730, 16670, 16610, 16540, 16420, 16360, 16300,
     16240, 16170, 16110, 16060, 15940, 15880, 15820, 15760, 15650, 15590,
     15540, 15480, 15370, 15320, 15260, 15210, 15100, 15050, 15000, 14890,
     14840, 14740, 14690, 14640, 14540, 14490, 14390, 14350, 14250, 14200,
     14110, 14060, 13970, 13930, 13840, 13790, 13700, 13650, 13590, 13520,
     13460, 13390, 13320, 13250, 13190, 13120, 13050, 12990, 12920, 12850,
     12780, 12720, 12650, 12580, 12520, 12450, 12380, 12310, 12250, 12180,
     12110, 12040, 11980, 11910, 11840, 11770, 11710, 11640, 11570, 11500,
     11440, 11370, 11300, 11230, 11160, 11100, 11030, 10960, 10890, 10820,
     10760, 10690, 10620, 10550, 10480, 10410, 10350, 10280, 10210, 10140,
     10070, 10000, 9934, 9865, 9796, 9214, 9145, 9075, 9005, 8935, 8865,
     8795, 8725, 8655, 8581, 8506, 8432, 8358, 8283, 8208, 8134, 8059,
     7984, 7909, 7834, 7759, 7683, 7608, 7532, 7456, 7380, 7304, 7228,
     7152, 7075, 6999, 6922, 6845, 6768, 6690, 6613, 6535, 6457, 6379,
     6301, 6222, 6143, 6064, 5985, 5905, 5825, 5745, 5664, 5583, 5501,
     5420, 5338, 5255, 5172, 5088, 5004, 4920, 4834, 4749, 4662, 4575,
     4487, 4398, 4308, 4217, 4126, 4033, 3938, 3843, 3746, 3647, 3547,
     3444, 3340, 3232, 3122, 3009, 2891, 2769, 2641, 2507, 2364, 2213,
     2058, 1908, 1787, 1720, 1716, 1758, 1812, 1855, 1877, 1887, 1898,
     1911, 1915, 1904, 1877, 1846, 1825, 1821, 1835, 1858, 1881, 1895,
     1888
  >>

\* a table with one entry less than the array holds
epsAu_num_short == Len(epsAu_energy) - 1

epsAg_num == 49
epsAu_num == 448

(***************************************************************************)
(* The two interpolate calls of epsAg and of epsAu on the embedded table:  *)
(* the scan, the clamps and the reads of the window.  The value of the     *)
(* cubic is left as the window it is computed from.                        *)
(***************************************************************************)
WindowRet(x_arr, y_arr, i) ==
  [kind |-> "window",
   x |-> [m \in 1..4 |-> At(x_arr, WindowIndices(i)[m])],
   y |-> [m \in 1..4 |-> At(y_arr, WindowIndices(i)[m])]]

TabQueries ==
  { R(At(energy, j)) : j \in 0..(Len(energy) - 1) }
    \cup { R(At(energy, 0) - 1), R(At(energy, Len(energy) - 1) + 1) }

Tab_interpolate(n) ==
  \E y_arr \in { ndata, kdata }, x_val \in TabQueries :
    /\ op' = "interpolate"
    /\ args' = [n |-> n, y_arr |-> y_arr, x_val |-> x_val]
    /\ win' = WindowBase(n, energy, x_val)
    /\ ret' = WindowRet(energy, y_arr, WindowBase(n, energy, x_val))
    /\ pc' = "returned"
    /\ UNCHANGED << table, cout, hist, main >>

Tab_epsAg == pc = "idle" /\ is_silver /\ Tab_interpolate(epsAg_num)

Tab_epsAu == pc = "idle" /\ ~is_silver /\ Tab_interpolate(epsAu_num)

InitTab ==
  /\ is_silver \in BOOLEAN
  /\ energy = IF is_silver THEN epsAg_energy ELSE epsAu_energy
  /\ ndata = IF is_silver THEN epsAg_ndata ELSE epsAu_ndata
  /\ kdata = IF is_silver THEN epsAg_kdata ELSE epsAu_kdata
  /\ pc = "idle"
  /\ op = "none"
  /\ args = [n |-> 0]
  /\ ret = NoRet
  /\ win = 0
  /\ cout = << >>
  /\ memo = {}
  /\ ncalls = 0
  /\ main = MainIdle

NextTab == Tab_epsAg \/ Tab_epsAu

SpecTab == InitTab /\ [][NextTab]_vars

(***************************************************************************)
(* main: the example program.  pc names the statement main executes next.  *)
(* A value main computes is kept as the call that computes it; a record of *)
(* an output file is the wavelength and the value written after it.        *)
(***************************************************************************)
L_size == 50
R_size == 2
H_size == 20
main_eps_h == 1

wl_max == 800
wl_step == 2

\* a sweep that starts in the far ultraviolet
wl_min_uv == wl_max \div 8

wl_min == 300

\* a count that leaves the last wavelength out
wl_n_noLast == (wl_max - wl_min) \div wl_step

wl_n == (wl_max - wl_min) \div wl_step + 1

\* the number of units of the energy array in one eV
energy_unit == IF is_silver THEN 100 ELSE 10000000

\* omega of epsAg and epsAu in the unit of the energy array
OmegaTab(lambda) == RMul(R(energy_unit), Omega(lambda))

MsgSize == "Effective size to calculate size-dependent dielectric function = "

DipCall(fn) ==
  [fn |-> fn, lambda |-> main.wl, eps_m |-> main.eps_m, eps_h |-> main_eps_h,
   L |-> L_size, H |-> H_size, R |-> R_size]

Main_diameter ==
  /\ pc = "diameter"
  /\ main' = [main EXCEPT !.D_SD = [fn |-> "diameter", L |-> L_size, H |-> H_size]]
  /\ cout' = Append(cout, MsgSize)
  /\ pc' = "open"
  /\ UNCHANGED << table, op, args, ret, win, hist >>

Main_open ==
  /\ pc = "open"
  /\ main' = [main EXCEPT !.fout_re = << >>, !.fout_im = << >>,
                          !.fout_sc = << >>, !.fout_ex = << >>, !.i = 0]
  /\ pc' = "test"
  /\ UNCHANGED << table, op, args, ret, win, cout, hist >>

Main_test ==
  /\ pc = "test"
  /\ IF main.i < wl_n
     THEN /\ main' = [main EXCEPT !.wl = wl_min + main.i * wl_step]
          /\ pc' = "eps_m"
     ELSE /\ main' = main
          /\ pc' = "close"
  /\ UNCHANGED << table, op, args, ret, win, cout, hist >>

Main_eps_m ==
  /\ pc = "eps_m"
  /\ LET omega == OmegaTab(R(main.wl))
     IN  IF OutOfRange(omega)
         THEN /\ cout' = Append(cout, IF is_silver THEN MsgAg ELSE MsgAu)
              /\ main' = main
              /\ pc' = "exited"
         ELSE /\ cout' = cout
              /\ main' = [main EXCEPT !.eps_m =
                            [fn |-> IF is_silver THEN "epsAgSD" ELSE "epsAuSD",
                             lambda |-> main.wl, D |-> main.D_SD]]
              /\ pc' = "val"
  /\ UNCHANGED << table, op, args, ret, win, hist >>

Main_val ==
  /\ pc = "val"
  /\ main' = [main EXCEPT !.val = DipCall("dipPolariz")]
  /\ pc' = "fout_re"
  /\ UNCHANGED << table, op, args, ret, win, cout, hist >>

Main_fout_re ==
  /\ pc = "fout_re"
  /\ main' = [main EXCEPT !.fout_re =
                Append(@, [wl |-> main.wl, v |-> [fn |-> "real", of |-> main.val]])]
  /\ pc' = "fout_im"
  /\ UNCHANGED << table, op, args, ret, win, cout, hist >>

Main_fout_im ==
  /\ pc = "fout_im"
  /\ main' = [main EXCEPT !.fout_im =
                Append(@, [wl |-> main.wl, v |-> [fn |-> "imag", of |-> main.val]])]
  /\ pc' = "fout_sc"
  /\ UNCHANGED << table, op, args, ret, win, cout, hist >>

Main_fout_sc ==
  /\ pc = "fout_sc"
  /\ main' = [main EXCEPT !.fout_sc =
                Append(@, [wl |-> main.wl, v |-> DipCall("scatCSdip")])]
  /\ pc' = "fout_ex"
  /\ UNCHANGED << table, op, args, ret, win, cout, hist >>

Main_fout_ex ==
  /\ pc = "fout_ex"
  /\ main' = [main EXCEPT !.fout_ex =
                Append(@, [wl |-> main.wl, v |-> DipCall("extCSdip")]),
                          !.i = @ + 1]
  /\ pc' = "test"
  /\ UNCHANGED << table, op, args, ret, win, cout, hist >>

Main_close ==
  /\ pc = "close"
  /\ pc' = "done"
  /\ UNCHANGED << table, op, args, ret, win, cout, hist, main >>

InitMain ==
  /\ is_silver = TRUE
  /\ energy = epsAg_energy
  /\ ndata = epsAg_ndata
  /\ kdata = epsAg_kdata
  /\ pc = "diameter"
  /\ op = "none"
  /\ args = [n |-> 0]
  /\ ret = NoRet
  /\ win = 0
  /\ cout = << >>
  /\ memo = {}
  /\ ncalls = 0
  /\ main = MainIdle

NextMain ==
  \/ Main_diameter
  \/ Main_open
  \/ Main_test
  \/ Main_eps_m
  \/ Main_val
  \/ Main_fout_re
  \/ Main_fout_im
  \/ Main_fout_sc
  \/ Main_fout_ex
  \/ Main_close

\* main is one sequential thread: a statement that can execute does
SpecMain == InitMain /\ [][NextMain]_vars /\ WF_vars(NextMain)

TypeOK ==
  /\ ret.kind = "real" => IsRat(ret.re)
  /\ ret.kind \in { "complex", "complex_sd" } => IsRat(ret.re) /\ IsRat(ret.im)
  /\ ret.kind = "complex_sd" => IsRat(ret.gam_inf.m) /\ IsRat(ret.gam_r.m)
  /\ ret.kind = "sci" => IsRat(ret.m)

(***************************************************************************)
(* Properties.                                                             *)
(***************************************************************************)
Called(names) == pc # "idle" /\ op \in names

IsNode(x_arr, x_val) == \E k \in 0..(Len(x_arr) - 1) : x_val = R(At(x_arr, k))

NodeOf(x_arr, x_val) == CHOOSE k \in 0..(Len(x_arr) - 1) : x_val = R(At(x_arr, k))

\* C2: a query placed exactly on node k returns y[k], for every node
\* including the first and the last.
C2_ReproducesSamples ==
  (Called({ "interpolate" }) /\ IsNode(args.x_arr, args.x_val))
    => ret.re = R(At(args.y_arr, NodeOf(args.x_arr, args.x_val)))

\* the largest index whose node is at or below the query (0 when there is none)
LargestLE(x_arr, x_val) ==
  LET S == { k \in 0..(Len(x_arr) - 1) : RLe(R(At(x_arr, k)), x_val) }
  IN  IF S = {} THEN 0 ELSE CHOOSE k \in S : \A m \in S : m <= k

Clamp(v, lo, hi) == IF v < lo THEN lo ELSE IF v > hi THEN hi ELSE v

\* C10: the window base index is the largest index i with x[i] <= x_val,
\* clamped to [1, N-3], for every query inside or outside the table.
C10_WindowBaseIsClampedLargestLE ==
  Called({ "interpolate" })
    => win = Clamp(LargestLE(args.x_arr, args.x_val), 1, args.n - 3)

\* C11: for every table of N >= 4 samples and every query, inside or outside
\* the table, the four indices interpolate reads are consecutive, distinct and
\* inside 0..N-1, and the call returns a real number.
C11_WindowInsideTable ==
  Called({ "interpolate" })
    => LET w == WindowIndices(win)
       IN  /\ args.n >= 4
           /\ \A m \in 1..4 : w[m] \in 0..(args.n - 1)
           /\ \A m \in 1..3 : w[m + 1] = w[m] + 1
           /\ pc = "returned" /\ ret.kind = "real" /\ cout = << >>

\* the scan ended above N-3 and the upper clamp acted
C11_Witness ==
  /\ Called({ "interpolate" }) /\ pc = "returned"
  /\ ScanFrom(1, InitI, TRUE, args.n, args.x_arr, args.x_val) > args.n - 3
  /\ win = args.n - 3

\* C12: the silver arrays hold 49 entries each and the gold arrays 448 each,
\* the number passed to interpolate, and each energy array is strictly
\* increasing, so the difference of two distinct window nodes is never zero.
C12_TablesWellFormed ==
  LET n == IF is_silver THEN 49 ELSE 448
  IN  /\ Len(energy) = n /\ Len(ndata) = n /\ Len(kdata) = n
      /\ \A j \in 1..(Len(energy) - 1) : energy[j] < energy[j + 1]
      /\ Called({ "interpolate" })
           => /\ args.n = n
              /\ \A a, b \in 1..4 : a # b => ret.x[a] - ret.x[b] # 0

\* the last window of the gold table
C12_Witness ==
  /\ Called({ "interpolate" }) /\ pc = "returned" /\ ~is_silver
  /\ win = 445 /\ ret.x[4] = 41328100

\* C13: in the sweep of main (silver, 300, 302, ..., 800 nm) every photon
\* energy 1239.8/lambda lies in [0.64, 6.60] eV, no iteration ends the
\* process, and main ends only after the wavelength 800 has been written.
C13_SweepInRange ==
  /\ is_silver
  /\ pc # "exited"
  /\ pc \in { "val", "fout_re", "fout_im", "fout_sc", "fout_ex" }
       => LET omega == RDiv(RNorm(12398, 10), R(main.wl))
          IN  RLe(RNorm(64, 100), omega) /\ RLe(omega, RNorm(660, 100))
  /\ pc \in { "close", "done" }
       => main.fout_ex[Len(main.fout_ex)].wl = 800

\* the permittivity at the last wavelength has been computed
C13_Witness ==
  /\ pc = "val" /\ main.wl = 800
  /\ main.eps_m = [fn |-> "epsAgSD", lambda |-> 800, D |-> main.D_SD]

Files == << main.fout_re, main.fout_im, main.fout_sc, main.fout_ex >>

C14_Records ==
  /\ cout = IF pc = "diameter" THEN << >> ELSE << MsgSize >>
  /\ main.D_SD = IF pc = "diameter" THEN NoRet
                 ELSE [fn |-> "diameter", L |-> 50, H |-> 20]
  /\ pc = "test" => \A f \in 1..4 : Len(Files[f]) = main.i
  /\ pc \in { "close", "done" }
       => \A f \in 1..4 : Len(Files[f]) = (800 - 300) \div 2 + 1
  /\ \A f \in 1..4 :
       /\ Len(Files[f]) \in { main.i, main.i + 1 }
       /\ \A k \in 1..Len(Files[f]) :
            /\ Files[f][k].wl = 300 + (k - 1) * 2
            /\ Files[f][k].wl <= 800
            /\ k > 1 => Files[f][k - 1].wl < Files[f][k].wl
  /\ pc \in { "fout_re", "fout_im", "fout_sc", "fout_ex" }
       => /\ main.eps_m.lambda = main.wl
          /\ main.val.eps_m = main.eps_m
          /\ main.val.lambda = main.wl

\* C14: the sweep ends after floor((wl_max - wl_min)/wl_step) + 1 iterations;
\* the diameter is computed once, before the first iteration; in an iteration
\* the permittivity is computed before the polarizability and the cross
\* sections, and one record goes to each of the four files, so that between
\* iterations the files hold the same number of records, record i carries
\* wl_min + i*wl_step, and the wavelengths increase and stay at or below wl_max.
C14_SweepTerminates == [] C14_Records /\ <> (pc = "done")

C14_Witness ==
  /\ pc = "done"
  /\ \A f \in 1..4 : Len(Files[f]) = 251 /\ Files[f][251].wl = 800

\* the middle of the interval that ends at node k
MidBelow(x_arr, k) == RDiv(RAdd(R(At(x_arr, k - 1)), R(At(x_arr, k))), R(2))

\* C4: at every node where the window changes, the cubic of the window used
\* just below the node takes at the node the value interpolate returns there,
\* so interpolate has no jump on [x[0], x[N-1]], the last node included.
C4_ContinuousAtWindowChanges ==
  (Called({ "interpolate" }) /\ IsNode(args.x_arr, args.x_val))
    => LET k == NodeOf(args.x_arr, args.x_val)
           old == WindowBase(args.n, args.x_arr, MidBelow(args.x_arr, k))
       IN  (k >= 1 /\ old # win)
             => ret.re = Cubic(args.x_arr, args.y_arr, old, args.x_val)

OutsideTable(omega) ==
  RLt(omega, R(At(energy, 0))) \/ RLt(R(At(energy, num - 1)), omega)

EpsNames == { "epsAg", "epsAu" }
EpsSDNames == { "epsAgSD", "epsAuSD" }

\* C1: for a wavelength whose photon energy is strictly below the first or
\* strictly above the last table energy, epsAg and epsAu report the condition
\* and end the computation without returning a permittivity.
C1_OutOfRangeAborts ==
  (Called(EpsNames) /\ OutsideTable(Omega(args.lambda)))
    => (pc = "exited" /\ ret = ExitRet /\ Len(cout) = 1)

\* C3: epsAg and epsAu return a permittivity when the photon energy equals
\* the table's minimum, equals its maximum, or lies between them.
C3_InRangeSucceeds ==
  (Called(EpsNames) /\ ~OutsideTable(Omega(args.lambda)))
    => (pc = "returned" /\ ret.kind = "complex" /\ cout = << >>)

C3_Witness ==
  /\ Called(EpsNames) /\ pc = "returned"
  /\ Omega(args.lambda) = R(At(energy, num - 1))

\* C5: the size-corrected function ends the process exactly when the
\* tabulated function does for the same wavelength, and returns a value
\* exactly when the tabulated function returns one.
C5_SDPropagatesRangeCheck ==
  Called(EpsSDNames)
    => /\ (pc = "exited") <=> (epsTab(args.lambda) = ExitRet)
       /\ (pc = "returned" /\ ret.kind = "complex_sd")
             <=> (epsTab(args.lambda).kind = "complex")

C5_Witness ==
  /\ Called(EpsSDNames) /\ pc = "returned"
  /\ OutsideTable(Omega(args.lambda))

\* C6: for an in-range wavelength the result of epsAg and epsAu is the square
\* of n + i*k: real part n*n - k*k and imaginary part 2*n*k, with n and k
\* interpolated on the two columns at the same energy 1239.8/lambda.
C6_PermittivityIsSquareOfIndex ==
  (Called(EpsNames) /\ ~OutsideTable(Omega(args.lambda)))
    => LET omega == RDiv(RNorm(12398, 10), args.lambda)
           n == interpolate(num, energy, ndata, omega)
           k == interpolate(num, energy, kdata, omega)
       IN  /\ ret.re = RMul(RAdd(n, k), RSub(n, k))
           /\ ret.im = RAdd(RMul(n, k), RMul(k, n))

C6_Witness ==
  /\ Called(EpsNames) /\ pc = "returned"
  /\ ~OutsideTable(Omega(args.lambda))
  /\ ret.re # R(0) /\ ret.im # R(0)

DipNames == { "dipPolariz" }

\* C7: the polarizability is V1/(4*pi) over a denominator that is the first
\* term 1/(eps_m/eps_h - 1) less the two others, 1/(eps_c - 1) and A_rc: the
\* first term equals V1/(4*pi*alpha) + 1/(eps_c - 1) + A_rc.
C7_DenominatorIsDifference ==
  Called(DipNames)
    => LET a == args
           s == RDiv(RMul(RSqrt(a.eps_h), a.L), a.lambda)
           V1 == RMul(RDiv(RMul(RMul(Sqrt3, RMul(a.L, a.L)), a.H), R(4)), a.fit.beta)
           A_rc == Cx(RAdd(RMul(RPow(s, 2), a.fit.a2), RMul(RPow(s, 4), a.fit.a4)),
                      RMul(RMul(RDiv(RMul(R(4), RMul(M_PI, M_PI)), R(3)),
                                RDiv(V1, RPow(a.L, 3))),
                           RPow(s, 3)))
           first == CDiv(IRE, CSub(CDiv(a.eps_m, Cx(a.eps_h, R(0))), IRE))
           others == CAdd(Cx(RInv(RSub(a.fit.eps_c, R(1))), R(0)), A_rc)
           alpha == Cx(ret.re, ret.im)
       IN  /\ ~CZero(alpha)
           /\ first = CAdd(CDiv(Cx(RDiv(V1, RMul(R(4), M_PI)), R(0)), alpha), others)

C7_Witness ==
  /\ Called(DipNames) /\ pc = "returned"
  /\ ret.re # R(0) /\ ret.im # R(0)

RSign(a) == IF a[1] < 0 THEN -1 ELSE IF a[1] = 0 THEN 0 ELSE 1

ArgsPolariz == dipPolariz(args.lambda, args.eps_m, args.eps_h, args.L, args.H,
                          args.fit)

\* C8: for lambda > 0 and eps_h > 0, scatCSdip is never negative, and
\* extCSdip is negative exactly when the imaginary part of the polarizability
\* is negative (there is no clamp).
C8_CrossSectionSigns ==
  /\ Called({ "scatCSdip" }) => RSign(ret.m) >= 0
  /\ Called({ "extCSdip" }) => (RSign(ret.m) >= 0 <=> RSign(ArgsPolariz.im) >= 0)

C8_Witness ==
  /\ Called({ "extCSdip" }) /\ pc = "returned"
  /\ RSign(ret.m) < 0
  /\ RSign(args.lambda) > 0 /\ RSign(args.eps_h) > 0

\* C9: a call returns what the same call returned the first time it was made,
\* whatever calls were made in between, and no call changes the embedded table.
C9_Deterministic ==
  /\ [](pc # "idle" =>
          \A m \in memo : (m.op = op /\ m.args = args) => (m.ret = ret /\ m.pc = pc))
  /\ [][table' = table]_vars

C9_Witness ==
  /\ pc = "returned" /\ ncalls = 2
  /\ Cardinality(memo) = 2
  /\ op = "interpolate"
====
